---- MODULE Spec2Model ----
(***************************************************************************)
(* Station reconciliation pipeline of the air-quality backend:             *)
(* fetch (waqi_stations.py) -> conversion to StationDataBase               *)
(* (scheduler.py, schemas.py) -> upsert_station_data (crud.py), and the    *)
(* retention sweep cleanup_old_station_data (crud.py).                     *)
(***************************************************************************)
EXTENDS Integers, Sequences, FiniteSets, TLC

(***************************************************************************)
(* Bounds of the model.                                                    *)
(***************************************************************************)
MaxRuns == 2        \* reconciliation cycles started in one behaviour
MaxReruns == 3      \* the same, where a batch is run again on what a cycle left
MaxTime == 8        \* last value of the clock (days)
MaxBounds == 1      \* stations in a bounding-box response
MaxSearch == 1      \* stations in a keyword-search response
MaxFetched == 2     \* stations in a response, fetch_berlin_stations taken alone
MaxReadRuns == 1    \* cycles started in a behaviour that also reads the table
MaxCalls == 5       \* calls of start_scheduler and stop_scheduler in one behaviour

(***************************************************************************)
(* JSON / Python values.  A value is a record [t, v]: t is the Python type *)
(* and v the number it holds (0 when it holds none).  StrV(n) is the JSON  *)
(* string whose text is the decimal numeral of n, Dash the string "-".     *)
(***************************************************************************)
NoneV == [t |-> "none", v |-> 0]
IntV(n) == [t |-> "int", v |-> n]
StrV(n) == [t |-> "str", v |-> n]
Dash == [t |-> "text", v |-> 0]
AbsentKey == [t |-> "absent", v |-> 0]

\* Python truthiness of a value
Truthy(x) == x.t \in {"int", "str", "text"} /\ ~(x.t = "int" /\ x.v = 0)

\* names: a string, a null, or a key that is not there
NameV(s) == [t |-> "str", s |-> s]
NullName == [t |-> "none", s |-> ""]
AbsentName == [t |-> "absent", s |-> ""]

(***************************************************************************)
(* BERLIN_BOUNDS, in hundredths of a degree.                               *)
(***************************************************************************)
lat1 == 5235
lat2 == 5265
lon1 == 1310
lon2 == 1370

\* a box test that forgets the latitude
InBerlinBoundsLonOnly(lat, lon) == lon1 <= lon /\ lon <= lon2

InBerlinBounds(lat, lon) == lat1 <= lat /\ lat <= lat2 /\ lon1 <= lon /\ lon <= lon2

(***************************************************************************)
(* The iaqi keys of a detail payload and the column each one feeds.        *)
(***************************************************************************)
IaqiKeys == {"pm25", "pm10", "no2", "o3", "co", "so2", "t", "p", "h", "w"}
Columns == {"pm25", "pm10", "no2", "o3", "co", "so2",
            "temperature", "pressure", "humidity", "wind_speed"}

IaqiKeyOf(col) ==
    CASE col = "temperature" -> "t"
      [] col = "pressure" -> "p"
      [] col = "humidity" -> "h"
      [] col = "wind_speed" -> "w"
      [] OTHER -> col

NoVals == [c \in Columns |-> NoneV]

(***************************************************************************)
(* all_stations: a Python dict, as the sequence of its (key, value) pairs  *)
(* in insertion order.  Assigning to a key that is there keeps its place.  *)
(***************************************************************************)
DictKeys(d) == {d[i].key : i \in 1..Len(d)}

DictSet(d, k, val) ==
    IF k \in DictKeys(d)
    THEN [i \in 1..Len(d) |-> IF d[i].key = k THEN [key |-> k, st |-> val] ELSE d[i]]
    ELSE Append(d, [key |-> k, st |-> val])

(***************************************************************************)
(* fetch_berlin_stations.  A raw station is [uid, lat, lon, aqi, station]; *)
(* a keyword-search station is [uid, geo, aqi, station] with geo           *)
(* [k, lat, lon]: k = "pair" two numbers, "none" missing or too short,     *)
(* "bad" an entry float() rejects.                                         *)
(***************************************************************************)
RECURSIVE BoundsLoop(_, _)
BoundsLoop(all, data) ==
    IF data = <<>> THEN all
    ELSE LET station == Head(data) IN
         BoundsLoop(IF Truthy(station.uid) /\ station.lat # 0 /\ station.lon # 0
                    THEN DictSet(all, station.uid, station)
                    ELSE all,
                    Tail(data))

ConvertedStation(station) ==
    [uid |-> station.uid, lat |-> station.geo.lat, lon |-> station.geo.lon,
     aqi |-> station.aqi, station |-> station.station]

\* a search loop without the "uid not in all_stations" test
RECURSIVE SearchLoopOverwrite(_, _)
SearchLoopOverwrite(all, data) ==
    IF data = <<>> THEN all
    ELSE LET station == Head(data) IN
         IF Truthy(station.uid) /\ station.geo.k # "none"
         THEN IF station.geo.k = "bad"
              THEN all
              ELSE IF InBerlinBounds(station.geo.lat, station.geo.lon)
                   THEN SearchLoopOverwrite(
                            DictSet(all, station.uid, ConvertedStation(station)),
                            Tail(data))
                   ELSE SearchLoopOverwrite(all, Tail(data))
         ELSE SearchLoopOverwrite(all, Tail(data))

RECURSIVE SearchLoop(_, _)
SearchLoop(all, data) ==
    IF data = <<>> THEN all
    ELSE LET station == Head(data) IN
         IF Truthy(station.uid) /\ station.uid \notin DictKeys(all)
            /\ station.geo.k # "none"
         THEN IF station.geo.k = "bad"
              THEN all      \* float() raises: the except of line 80 ends the loop
              ELSE IF InBerlinBounds(station.geo.lat, station.geo.lon)
                   THEN SearchLoop(DictSet(all, station.uid, ConvertedStation(station)),
                                   Tail(data))
                   ELSE SearchLoop(all, Tail(data))
         ELSE SearchLoop(all, Tail(data))

\* a GeoJSON feature as the scheduler reads it
BasicFeature(uid, station) ==
    [kind |-> "basic", uid |-> uid, lat |-> station.lat, lon |-> station.lon,
     aqi |-> station.aqi, name |-> AbsentName, vals |-> NoVals,
     station |-> station.station]

RECURSIVE FeatureLoop(_)
FeatureLoop(all) ==
    IF all = <<>> THEN <<>>
    ELSE LET e == Head(all) IN
         IF e.st.lat = 0 \/ e.st.lon = 0
         THEN FeatureLoop(Tail(all))
         ELSE <<BasicFeature(e.key, e.st)>> \o FeatureLoop(Tail(all))

\* a fetch in which an exception of the keyword search is not caught apart
\* and costs the stations collected so far
AllStationsSearchAborts(bounds_response, search_response) ==
    IF search_response.kind = "exc"
          \/ \E j \in 1..Len(search_response.data) : search_response.data[j].geo.k = "bad"
    THEN <<>>
    ELSE IF bounds_response.kind = "ok"
         THEN BoundsLoop(<<>>, bounds_response.data)
         ELSE <<>>

\* a response is [kind, data], kind in "exc" (the request or .json() raises),
\* "non200", "notok" (status is not "ok"), "ok"
AllStations(bounds_response, search_response) ==
    LET afterBounds == IF bounds_response.kind = "ok"
                       THEN BoundsLoop(<<>>, bounds_response.data)
                       ELSE <<>>
    IN IF search_response.kind = "ok"
       THEN SearchLoop(afterBounds, search_response.data)
       ELSE afterBounds

\* a fetch that keeps a bounding-box record whatever its coordinates
RECURSIVE BoundsLoopAnyCoordinates(_, _)
BoundsLoopAnyCoordinates(all, data) ==
    IF data = <<>> THEN all
    ELSE BoundsLoopAnyCoordinates(IF Truthy(Head(data).uid)
                                  THEN DictSet(all, Head(data).uid, Head(data))
                                  ELSE all,
                                  Tail(data))

fetch_berlin_stations_any_coordinates(bounds_response, search_response) ==
    LET all == IF bounds_response.kind = "ok"
               THEN BoundsLoopAnyCoordinates(<<>>, bounds_response.data)
               ELSE <<>>
    IN [i \in 1..Len(all) |-> BasicFeature(all[i].key, all[i].st)]

fetch_berlin_stations(bounds_response, search_response) ==
    IF bounds_response.kind = "exc"
    THEN <<>>
    ELSE FeatureLoop(AllStations(bounds_response, search_response))

(***************************************************************************)
(* fetch_berlin_stations_detailed.  A detail response is                   *)
(* [kind, name, aqi, iaqi]: iaqi maps each key to AbsentKey (no entry),    *)
(* NoneV (an entry that is null) or the number of its {"v": n}.            *)
(***************************************************************************)
\* .get(key, {}).get("v") on a null entry raises AttributeError
EnhancedRaises(response) == \E k \in IaqiKeys : response.iaqi[k] = NoneV

IaqiValue(iaqi, key) == IF iaqi[key] = AbsentKey THEN NoneV ELSE iaqi[key]

EnhancedFeature(station, response) ==
    [kind |-> "enhanced", uid |-> station.uid, lat |-> station.lat, lon |-> station.lon,
     aqi |-> response.aqi,
     name |-> IF response.name = AbsentName THEN NameV("Unknown") ELSE response.name,
     vals |-> [c \in Columns |-> IaqiValue(response.iaqi, IaqiKeyOf(c))],
     station |-> station.station]

\* what one station adds to detailed_features
DetailedOf(station, response) ==
    CASE response.kind = "exc" -> <<station>>
      [] response.kind \in {"non200", "notok"} -> <<>>
      [] OTHER -> IF EnhancedRaises(response)
                  THEN <<station>>
                  ELSE <<EnhancedFeature(station, response)>>

RECURSIVE fetch_berlin_stations_detailed(_, _)
fetch_berlin_stations_detailed(basic_stations, responses) ==
    IF basic_stations = <<>> THEN <<>>
    ELSE DetailedOf(Head(basic_stations), Head(responses))
         \o fetch_berlin_stations_detailed(Tail(basic_stations), Tail(responses))

(***************************************************************************)
(* StationDataBase: pydantic's validation and coercion of one feature.     *)
(***************************************************************************)
\* station_uid: int
IntOk(x) == x.t \in {"int", "str"}
\* Optional[int], Optional[float]
OptionalOk(x) == x.t \in {"none", "int", "str"}
OptionalOf(x) == IF x.t = "none" THEN NoneV ELSE IntV(x.v)

StationDataBaseOk(station) ==
    /\ IntOk(station.uid)
    /\ station.name.t # "none"
    /\ OptionalOk(station.aqi)
    /\ \A c \in Columns : OptionalOk(station.vals[c])

StationDataBase(station) ==
    [station_uid |-> station.uid.v,
     station_name |-> IF station.name.t = "absent" THEN "Unknown" ELSE station.name.s,
     aqi |-> OptionalOf(station.aqi),
     vals |-> [c \in Columns |-> OptionalOf(station.vals[c])],
     latitude |-> station.lat,
     longitude |-> station.lon]

\* the conversion loop of update_berlin_stations: a feature that fails
\* validation is logged and skipped
RECURSIVE StationRecords(_)
StationRecords(features) ==
    IF features = <<>> THEN <<>>
    ELSE (IF StationDataBaseOk(Head(features))
          THEN <<StationDataBase(Head(features))>>
          ELSE <<>>) \o StationRecords(Tail(features))

(***************************************************************************)
(* upsert_station_data.  The session does not autoflush, so every lookup   *)
(* reads the committed table: rows added earlier in the same call are not  *)
(* seen.  .first() has no ORDER BY: with several rows of one station_uid   *)
(* it returns any of them.  A plan is what the session holds at commit:    *)
(* dirty, the rows it changed (row id -> values), new, the rows it added,  *)
(* and updated_stations, the list the function returns.                    *)
(***************************************************************************)
EmptyPlan == [dirty |-> <<>>, new |-> <<>>, updated_stations |-> <<>>]

Existing(table, data) == {row \in table : row.station_uid = data.station_uid}

\* the pending value of a row: the last assignment to it wins
SetDirty(dirty, id, data) ==
    IF \E i \in 1..Len(dirty) : dirty[i].id = id
    THEN [i \in 1..Len(dirty) |-> IF dirty[i].id = id THEN [id |-> id, data |-> data]
                                                    ELSE dirty[i]]
    ELSE Append(dirty, [id |-> id, data |-> data])

RECURSIVE UpsertPlans(_, _, _)
UpsertPlans(table, station_data_list, plan) ==
    IF station_data_list = <<>> THEN {plan}
    ELSE LET data == Head(station_data_list)
             rest == Tail(station_data_list)
         IN IF Existing(table, data) = {}
            THEN UpsertPlans(table, rest,
                     [plan EXCEPT !.new = Append(@, data),
                                  !.updated_stations =
                                      Append(@, [new |-> TRUE, ref |-> Len(plan.new) + 1])])
            ELSE UNION {UpsertPlans(table, rest,
                            [plan EXCEPT !.dirty = SetDirty(@, existing_station.id, data),
                                         !.updated_stations =
                                             Append(@, [new |-> FALSE,
                                                        ref |-> existing_station.id])])
                        : existing_station \in Existing(table, data)}

Row(id, data, last_update) ==
    [id |-> id, station_uid |-> data.station_uid, station_name |-> data.station_name,
     aqi |-> data.aqi, vals |-> data.vals, latitude |-> data.latitude,
     longitude |-> data.longitude, last_update |-> last_update]

DirtyIds(plan) == {plan.dirty[i].id : i \in 1..Len(plan.dirty)}
DirtyData(plan, id) ==
    plan.dirty[CHOOSE i \in 1..Len(plan.dirty) : plan.dirty[i].id = id].data

\* a commit that writes a changed row as one more row and keeps the old one
CommitCopy(table, plan, current_time, first_id) ==
    table
    \cup {Row(first_id + Len(plan.new) + i - 1, plan.dirty[i].data, current_time) :
             i \in 1..Len(plan.dirty)}
    \cup {Row(first_id + i - 1, plan.new[i], current_time) : i \in 1..Len(plan.new)}

\* a commit that makes the table a snapshot of the batch
CommitSnapshot(table, plan, current_time, first_id) ==
    {Row(row.id, [DirtyData(plan, row.id) EXCEPT !.station_uid = row.station_uid],
         current_time) : row \in {r \in table : r.id \in DirtyIds(plan)}}
    \cup {Row(first_id + i - 1, plan.new[i], current_time) : i \in 1..Len(plan.new)}

\* db.commit(): the flush writes every changed and every added row
Commit(table, plan, current_time, first_id) ==
    {IF row.id \in DirtyIds(plan)
     THEN Row(row.id, [DirtyData(plan, row.id) EXCEPT !.station_uid = row.station_uid],
              current_time)
     ELSE row : row \in table}
    \cup {Row(first_id + i - 1, plan.new[i], current_time) : i \in 1..Len(plan.new)}

\* a failed commit that leaves the added rows in the table
FailedCommitInserts(table, plan, current_time, first_id) ==
    table \cup {Row(first_id + i - 1, plan.new[i], current_time) : i \in 1..Len(plan.new)}

\* a commit that fails and leaves the flushed updates in the table
FailedCommitPartial(table, plan, current_time, first_id) ==
    Commit(table, [plan EXCEPT !.new = <<>>], current_time, first_id)

\* db.commit() raises: the session is not in autocommit mode, so what the flush
\* wrote belongs to a transaction that ends without effect
FailedCommit(table, plan, current_time, first_id) == table

\* db.refresh(item): the item is read again from the table, by its id
ItemId(item, first_id) == IF item.new THEN first_id + item.ref - 1 ELSE item.ref
Refresh(table, item, first_id) == CHOOSE row \in table : row.id = ItemId(item, first_id)

\* crud.py 84-87: the list the call returns, every item of updated_stations
\* refreshed
Refreshed(table, plan, first_id) ==
    [i \in 1..Len(plan.updated_stations) |->
        Refresh(table, plan.updated_stations[i], first_id)]

\* a call that re-reads its items first and commits afterwards
StorageCallsRefreshFirst(fault, last) ==
    CASE fault = "lookup" -> <<>>
      [] fault = "refresh" -> [i \in 1..last |-> "refresh"]
      [] OTHER -> [i \in 1..last |-> "refresh"] \o <<"commit">>

\* crud.py 81-85: what the call asks of the session once the loop is over,
\* in order, up to the request that raises, if one does: the commit, then
\* one refresh per item.  last is the number of refreshes it gets to.
StorageCalls(fault, last) ==
    CASE fault = "lookup" -> <<>>
      [] fault = "commit" -> <<"commit">>
      [] OTHER -> <<"commit">> \o [i \in 1..last |-> "refresh"]

(***************************************************************************)
(* cleanup_old_station_data                                                *)
(***************************************************************************)
\* a sweep that also takes the rows exactly at the cutoff
DeletedInclusive(table, utcnow, days_to_keep) ==
    {row \in table : row.last_update <= utcnow - days_to_keep}

\* a sweep that stops after one row
DeletedOne(table, utcnow, days_to_keep) ==
    LET old == {row \in table : row.last_update < utcnow - days_to_keep}
    IN IF old = {} THEN {} ELSE {CHOOSE row \in old : TRUE}

Deleted(table, utcnow, days_to_keep) ==
    {row \in table : row.last_update < utcnow - days_to_keep}

cleanup_old_station_data(table, utcnow, days_to_keep) ==
    [table |-> table \ Deleted(table, utcnow, days_to_keep),
     deleted_count |-> Cardinality(Deleted(table, utcnow, days_to_keep))]

(***************************************************************************)
(* get_latest_station_data_by_region: of every station_uid the rows with   *)
(* its latest last_update (every row the cycle writes has region Berlin).  *)
(***************************************************************************)
get_latest_station_data_by_region(table) ==
    {row \in table :
        \A other \in table :
            other.station_uid = row.station_uid => other.last_update <= row.last_update}

(***************************************************************************)
(* The upstream responses the model draws from.                            *)
(***************************************************************************)
SeqsUpTo(S, n) == UNION {[1..k -> S] : k \in 0..n}

BoundsStation(uid, lat) ==
    [uid |-> uid, lat |-> lat, lon |-> 1340, aqi |-> IntV(40), station |-> "Berlin"]
SearchStation(uid, geo) ==
    [uid |-> uid, geo |-> geo, aqi |-> IntV(40), station |-> "Berlin"]
Geo(lat, lon) == [k |-> "pair", lat |-> lat, lon |-> lon]
NoGeo == [k |-> "none", lat |-> 0, lon |-> 0]
BadGeo == [k |-> "bad", lat |-> 0, lon |-> 0]

RawUids == {IntV(1), IntV(2), StrV(1)}

BoundsStations ==
    {BoundsStation(uid, 5250) : uid \in RawUids}
    \cup {BoundsStation(NoneV, 5250), BoundsStation(IntV(2), 0)}
SearchStations ==
    {SearchStation(uid, Geo(5250, 1340)) : uid \in RawUids}
    \cup {SearchStation(IntV(2), Geo(6000, 1340)), SearchStation(IntV(2), BadGeo)}

Failures == {[kind |-> k, data |-> <<>>] : k \in {"exc", "non200", "notok"}}
BoundsResponses ==
    Failures \cup {[kind |-> "ok", data |-> d] : d \in SeqsUpTo(BoundsStations, MaxBounds)}
SearchResponses ==
    Failures \cup {[kind |-> "ok", data |-> d] : d \in SeqsUpTo(SearchStations, MaxSearch)}

\* detail payloads: none, one that reports a few values (a 0 among them), one
\* that reports every value, one whose pm10 entry is null
NoIaqi == [k \in IaqiKeys |-> AbsentKey]
SparseIaqi == [k \in IaqiKeys |-> CASE k = "pm25" -> IntV(0)
                                    [] k = "t" -> IntV(21)
                                    [] OTHER -> AbsentKey]
FullIaqi == [k \in IaqiKeys |->
                CASE k = "pm25" -> IntV(11) [] k = "pm10" -> IntV(12)
                  [] k = "no2" -> IntV(13) [] k = "o3" -> IntV(14)
                  [] k = "co" -> IntV(15) [] k = "so2" -> IntV(16)
                  [] k = "t" -> IntV(17) [] k = "p" -> IntV(18)
                  [] k = "h" -> IntV(19) [] OTHER -> IntV(20)]
NullIaqi == [SparseIaqi EXCEPT !["pm10"] = NoneV]

Detail(kind, name, aqi, iaqi) == [kind |-> kind, name |-> name, aqi |-> aqi, iaqi |-> iaqi]
DetailResponses ==
    {Detail(k, AbsentName, NoneV, NoIaqi) : k \in {"exc", "non200"}}
    \cup {Detail("ok", NameV("Mitte"), IntV(50), SparseIaqi),
          Detail("ok", NameV("Mitte"), Dash, SparseIaqi)}

(***************************************************************************)
(* State.                                                                  *)
(***************************************************************************)
Cycles == {"scheduled", "manual"}   \* the hourly job, POST /scheduler/run
DaysToKeep == 7
TickDays == {7, 8}

VARIABLES
    station_data,     \* the station_data table: a set of rows
    next_id,          \* the next value of the table's id sequence
    utcnow,           \* the clock
    runs,             \* cycles started so far
    pc,               \* where each update_berlin_stations call is
    station_records,  \* the batch handed to upsert_station_data, per cycle
    session,          \* the cycle's database session and what it did
    log,              \* what the running call has logged
    cleanup,          \* the cleanup_task call: its place and its result
    prev_batch,       \* the batch of the last commit, while no sweep has deleted since
    raced,            \* per cycle: the uids other cycles inserted while it was in flight
    rewritten,        \* per cycle: the uids other cycles updated while it was in flight
    swept,            \* per cycle: the uids a sweep deleted while it was in flight
    outcome,          \* per cycle: what its caller made of the call once it returned
    stations,         \* what GET /stations/berlin answered last
    probe             \* the call that the function specifications apply

vars == <<station_data, next_id, utcnow, runs, pc, station_records, session, log,
          cleanup, prev_batch, raced, rewritten, swept, outcome, stations, probe>>

NoSession == [opened |-> FALSE, closed |-> FALSE, current_time |-> 0, plan |-> EmptyPlan,
              pre |-> {}, fault |-> "none", committed |-> FALSE, again |-> FALSE,
              calls |-> <<>>, returned |-> <<>>]
NoCleanup == [pc |-> "idle", pre |-> {}, at |-> 0, deleted_count |-> 0, fault |-> FALSE,
              opened |-> FALSE, closed |-> FALSE]
NoProbe == [stage |-> "none"]

InitService ==
    /\ station_data = {}
    /\ next_id = 1
    /\ utcnow = 0
    /\ runs = 0
    /\ pc = [c \in Cycles |-> "idle"]
    /\ station_records = [c \in Cycles |-> <<>>]
    /\ session = [c \in Cycles |-> NoSession]
    /\ log = [c \in Cycles |-> "none"]
    /\ cleanup = NoCleanup
    /\ prev_batch = <<>>
    /\ raced = [c \in Cycles |-> {}]
    /\ rewritten = [c \in Cycles |-> {}]
    /\ swept = [c \in Cycles |-> {}]
    /\ outcome = [c \in Cycles |-> "none"]
    /\ stations = [count |-> 0, rows |-> {}]

Init ==
    /\ InitService
    /\ probe = NoProbe

dbVars == <<station_data, next_id, prev_batch>>
cycleVars == <<runs, pc, station_records, session, log, raced, rewritten, outcome>>
serviceVars == <<station_data, next_id, utcnow, runs, pc, station_records, session, log,
                 cleanup, prev_batch, raced, rewritten, swept, outcome, stations>>

\* the event loop runs one callback at a time: none is between its
\* synchronous stretch and its return
LoopFree == cleanup.pc = "idle" /\ \A c \in Cycles : pc[c] # "return"

\* the clock moves on
Tick ==
    /\ \E d \in TickDays : utcnow + d <= MaxTime /\ utcnow' = utcnow + d
    /\ UNCHANGED <<dbVars, cycleVars, swept, cleanup, stations, probe>>

(***************************************************************************)
(* update_berlin_stations.  The call starts and awaits get_station_data,   *)
(* which runs in the executor's thread (the bounding-box request, the      *)
(* keyword search, one detail request per station) and hands its list of   *)
(* features back when the call resumes.                                    *)
(***************************************************************************)
Trigger(c, limit) ==
    /\ pc[c] = "idle"
    /\ LoopFree
    /\ runs < limit
    /\ runs' = runs + 1
    /\ pc' = [pc EXCEPT ![c] = "fetch"]
    /\ outcome' = [outcome EXCEPT ![c] = "none"]
    /\ UNCHANGED <<dbVars, utcnow, station_records, session, log, cleanup, raced,
                   rewritten, swept, stations, probe>>

\* data_sources.py 46-57: the feature lists get_station_data can return
WaqiFeatures ==
    UNION {{fetch_berlin_stations_detailed(fetch_berlin_stations(b, s), responses) :
               responses \in [1..Len(fetch_berlin_stations(b, s)) -> DetailResponses]} :
           b \in BoundsResponses, s \in SearchResponses}

\* scheduler.py 46-90: what a cycle has after the conversion loop, whether
\* the list of features was empty and the records that passed validation
Converted ==
    {[no_features |-> waqi_features = <<>>, records |-> StationRecords(waqi_features)] :
        waqi_features \in WaqiFeatures}

\* a cycle that goes on to the write phase with nothing converted
NoDataOnlyFeatures(no_features, records) == no_features

\* scheduler.py 41-43 and 92-94: nothing fetched, or nothing that converts
NoData(no_features, records) == no_features \/ records = <<>>

\* a cycle whose db.close() ends the try body instead of standing in finally
SessionCallsCloseInTry(fault) ==
    IF fault # "none" THEN <<"rollback">> ELSE <<"close">>

\* scheduler.py 107-111: what the cycle asks of its session once
\* upsert_station_data is over: db.rollback() when it raised, and db.close()
\* in finally
SessionCalls(fault) ==
    (IF fault # "none" THEN <<"rollback">> ELSE <<>>) \o <<"close">>

\* scheduler.py 150-154: the sweep has no except of its own: db.close() in
\* finally, whether cleanup_old_station_data raised or not
SweepSessionCalls(fault) == <<"close">>

Closes(calls) == \E i \in 1..Len(calls) : calls[i] = "close"

\* scheduler.py 97-111 and crud.py 53-87: get_db_session, the lookups with
\* the timestamp of the call, the commit, the refresh; an exception (fault:
\* raised in a "lookup", at "commit", in a "refresh") is logged and followed
\* by db.rollback(); db.close() in every case
WritePhase(c, records, plan, fault, last) ==
    LET committed == fault \in {"none", "refresh"} IN
    /\ station_data' =
          CASE committed -> Commit(station_data, plan, utcnow, next_id)
            [] fault = "commit" -> FailedCommit(station_data, plan, utcnow, next_id)
            [] OTHER -> station_data
    /\ next_id' = IF committed THEN next_id + Len(plan.new) ELSE next_id
    /\ prev_batch' = IF committed THEN records ELSE prev_batch
    /\ raced' = [d \in Cycles |->
                    IF committed /\ d # c /\ pc[d] # "idle"
                    THEN raced[d] \cup {plan.new[i].station_uid : i \in 1..Len(plan.new)}
                    ELSE raced[d]]
    /\ rewritten' = [d \in Cycles |->
                        IF committed /\ d # c /\ pc[d] # "idle"
                        THEN rewritten[d]
                             \cup {row.station_uid :
                                      row \in {r \in station_data : r.id \in DirtyIds(plan)}}
                        ELSE rewritten[d]]
    /\ station_records' = [station_records EXCEPT ![c] = records]
    /\ session' = [session EXCEPT ![c] =
                      [opened |-> TRUE, closed |-> Closes(SessionCalls(fault)),
                       current_time |-> utcnow,
                       plan |-> plan, pre |-> station_data, fault |-> fault,
                       committed |-> committed, again |-> (records = prev_batch),
                       calls |-> StorageCalls(fault, last),
                       returned |-> IF fault = "none"
                                    THEN Refreshed(station_data', plan, next_id)
                                    ELSE <<>>]]
    /\ log' = [log EXCEPT ![c] = IF fault = "none" THEN "saved" ELSE "db_error"]

(***************************************************************************)
(* The call resumes on the event loop and runs to its end without awaiting *)
(* again: the conversion, the two early returns, the write phase.          *)
(***************************************************************************)
Resume(c) ==
    /\ pc[c] = "fetch"
    /\ LoopFree
    /\ pc' = [pc EXCEPT ![c] = "return"]
    /\ \E converted \in Converted :
          IF NoData(converted.no_features, converted.records)
          THEN /\ log' = [log EXCEPT ![c] =
                             IF converted.no_features THEN "no_features" ELSE "no_records"]
               /\ UNCHANGED <<dbVars, station_records, session, raced, rewritten>>
          ELSE \/ \E plan \in UpsertPlans(station_data, converted.records, EmptyPlan) :
                     \/ \E fault \in {"none", "commit"} :
                           WritePhase(c, converted.records, plan, fault,
                                      Len(plan.updated_stations))
                     \/ \E last \in 1..Len(plan.updated_stations) :
                           WritePhase(c, converted.records, plan, "refresh", last)
               \/ WritePhase(c, converted.records, EmptyPlan, "lookup", 0)
    /\ UNCHANGED <<utcnow, runs, cleanup, swept, outcome, stations, probe>>

\* scheduler.py 107-109 and 113-114: the call catches every exception of the
\* write phase and of the rest of its body, logs it, and raises none
Raises(logged) == FALSE

\* the caller of the call: POST /scheduler/run answers "success" unless the
\* call raises (main.py 210-214), and so does the scheduler's job
Caller(raised) == IF raised THEN "error" ELSE "success"

\* the call returns (None on every path)
Return(c) ==
    /\ pc[c] = "return"
    /\ pc' = [pc EXCEPT ![c] = "idle"]
    /\ outcome' = [outcome EXCEPT ![c] = Caller(Raises(log[c]))]
    /\ session' = [session EXCEPT ![c] = NoSession]
    /\ station_records' = [station_records EXCEPT ![c] = <<>>]
    /\ log' = [log EXCEPT ![c] = "none"]
    /\ raced' = [raced EXCEPT ![c] = {}]
    /\ rewritten' = [rewritten EXCEPT ![c] = {}]
    /\ swept' = [swept EXCEPT ![c] = {}]
    /\ UNCHANGED <<dbVars, utcnow, runs, cleanup, stations, probe>>

(***************************************************************************)
(* cleanup_task: get_db_session, cleanup_old_station_data (delete and      *)
(* commit), close, in one synchronous stretch on the event loop.  An       *)
(* exception of the delete or of the commit leaves the table as it was.    *)
(***************************************************************************)
CleanupRun ==
    /\ LoopFree
    /\ \/ LET result == cleanup_old_station_data(station_data, utcnow, DaysToKeep) IN
          /\ station_data' = result.table
          /\ cleanup' = [pc |-> "return", pre |-> station_data, at |-> utcnow,
                         deleted_count |-> result.deleted_count, fault |-> FALSE,
                         opened |-> TRUE, closed |-> Closes(SweepSessionCalls(FALSE))]
          /\ prev_batch' = IF result.deleted_count > 0 THEN <<>> ELSE prev_batch
          /\ swept' = [c \in Cycles |->
                          IF pc[c] = "fetch"
                          THEN swept[c] \cup {row.station_uid :
                                                 row \in station_data \ result.table}
                          ELSE swept[c]]
       \/ /\ cleanup' = [NoCleanup EXCEPT !.pc = "return", !.pre = station_data,
                                          !.at = utcnow, !.fault = TRUE,
                                          !.opened = TRUE,
                                          !.closed = Closes(SweepSessionCalls(TRUE))]
          /\ UNCHANGED <<station_data, prev_batch, swept>>
    /\ UNCHANGED <<next_id, utcnow, cycleVars, stations, probe>>

CleanupReturn ==
    /\ cleanup.pc = "return"
    /\ cleanup' = NoCleanup
    /\ UNCHANGED <<dbVars, utcnow, cycleVars, swept, stations, probe>>

(***************************************************************************)
(* The service as deployed: the scheduler's hourly cycle, one after the    *)
(* other, the daily cleanup_task and the clock.                            *)
(***************************************************************************)
Next ==
    \/ Tick
    \/ CleanupRun
    \/ CleanupReturn
    \/ Trigger("scheduled", MaxRuns)
    \/ Resume("scheduled")
    \/ Return("scheduled")

Spec == Init /\ [][Next]_vars

(***************************************************************************)
(* The scheduled cycle and a manual trigger (main.py 194-214), which may   *)
(* start while the other is in flight.                                     *)
(***************************************************************************)
NextOverlap ==
    \E c \in Cycles :
        \/ Trigger(c, MaxRuns)
        \/ Resume(c)
        \/ Return(c)

SpecOverlap == Init /\ [][NextOverlap]_vars

(***************************************************************************)
(* The same with one more cycle: two cycles that overlap on the table an   *)
(* earlier cycle has left.                                                 *)
(***************************************************************************)
NextOverlapStored ==
    \E c \in Cycles :
        \/ Trigger(c, MaxReruns)
        \/ Resume(c)
        \/ Return(c)

SpecOverlapStored == Init /\ [][NextOverlapStored]_vars

(***************************************************************************)
(* The service as deployed, with one more cycle: a batch run twice on the  *)
(* table an earlier cycle has left.                                        *)
(***************************************************************************)
NextRerun ==
    \/ Tick
    \/ CleanupRun
    \/ CleanupReturn
    \/ Trigger("scheduled", MaxReruns)
    \/ Resume("scheduled")
    \/ Return("scheduled")

SpecRerun == Init /\ [][NextRerun]_vars

(***************************************************************************)
(* The service as deployed, with GET /stations/berlin (main.py 171-192),   *)
(* a synchronous handler that reads the table in a session of its own.     *)
(***************************************************************************)
get_berlin_stations_from_db ==
    /\ stations' = [count |-> Cardinality(get_latest_station_data_by_region(station_data)),
                    rows |-> get_latest_station_data_by_region(station_data)]
    /\ stations' # stations
    /\ UNCHANGED <<dbVars, utcnow, cycleVars, swept, cleanup, probe>>

NextRead ==
    \/ Tick
    \/ CleanupRun
    \/ CleanupReturn
    \/ Trigger("scheduled", MaxReadRuns)
    \/ Resume("scheduled")
    \/ Return("scheduled")
    \/ get_berlin_stations_from_db

SpecRead == Init /\ [][NextRead]_vars

(***************************************************************************)
(* fetch_berlin_stations taken alone, on every pair of responses of up to  *)
(* MaxFetched stations.  The two paths report different aqi and station    *)
(* data, so that a feature tells which record it was built from.           *)
(***************************************************************************)
FetchUids == {IntV(1), IntV(2), NoneV}
FetchBoundsStations ==
    {[uid |-> uid, lat |-> lat, lon |-> 1340, aqi |-> IntV(40), station |-> "bounds"] :
        uid \in FetchUids, lat \in {0, 5250, 6000}}
FetchSearchStations ==
    {[uid |-> uid, geo |-> geo, aqi |-> IntV(55), station |-> "search"] :
        uid \in FetchUids, geo \in {NoGeo, BadGeo, Geo(5255, 1345), Geo(6000, 1340)}}
FetchBoundsResponses ==
    Failures \cup {[kind |-> "ok", data |-> d] : d \in SeqsUpTo(FetchBoundsStations, MaxFetched)}
FetchSearchResponses ==
    Failures \cup {[kind |-> "ok", data |-> d] : d \in SeqsUpTo(FetchSearchStations, MaxFetched)}

InitFetch ==
    /\ InitService
    /\ \E b \in FetchBoundsResponses, s \in FetchSearchResponses :
          probe = [stage |-> "fetch", bounds_response |-> b, search_response |-> s,
                   features |-> <<>>]

FetchCall ==
    /\ probe.stage = "fetch"
    /\ probe' = [probe EXCEPT !.stage = "fetched",
                              !.features = fetch_berlin_stations(probe.bounds_response,
                                                                 probe.search_response)]
    /\ UNCHANGED serviceVars

NextFetch == FetchCall

SpecFetch == InitFetch /\ [][NextFetch]_vars

(***************************************************************************)
(* One station through the rest of a cycle: its detail request             *)
(* (fetch_berlin_stations_detailed), the conversion (update_berlin_        *)
(* stations), the write (upsert_station_data), on an empty table and on a  *)
(* table where an earlier cycle stored the station with every value.       *)
(***************************************************************************)
DetailStation == BasicFeature(IntV(1), BoundsStation(IntV(1), 5250))
OneKeyIaqi(key) == [k \in IaqiKeys |-> IF k = key THEN IntV(30) ELSE AbsentKey]
DetailPayloads ==
    {Detail(k, AbsentName, NoneV, NoIaqi) : k \in {"exc", "non200"}}
    \cup {Detail("ok", NameV("Mitte"), aqi, iaqi) :
             aqi \in {IntV(50), NoneV, Dash},
             iaqi \in {NoIaqi, SparseIaqi, FullIaqi, NullIaqi}
                      \cup {OneKeyIaqi(key) : key \in IaqiKeys}}
StoredBefore ==
    {Row(1, StationDataBase(EnhancedFeature(DetailStation,
                                Detail("ok", NameV("Mitte"), IntV(50), FullIaqi))), 0)}

InitDetail ==
    /\ InitService
    /\ probe \in {[stage |-> "detail", response |-> r, table |-> t, pre |-> t,
                   features |-> <<>>, records |-> <<>>] :
                     r \in DetailPayloads, t \in {{}, StoredBefore}}

DetailCall ==
    /\ probe.stage = "detail"
    /\ probe' = [probe EXCEPT !.stage = "convert",
                              !.features = fetch_berlin_stations_detailed(
                                               <<DetailStation>>, <<probe.response>>)]
    /\ UNCHANGED serviceVars

ConvertCall ==
    /\ probe.stage = "convert"
    /\ probe' = [probe EXCEPT !.stage = "upsert",
                              !.records = StationRecords(probe.features)]
    /\ UNCHANGED serviceVars

UpsertCall ==
    /\ probe.stage = "upsert"
    /\ \E plan \in UpsertPlans(probe.table, probe.records, EmptyPlan) :
          probe' = [probe EXCEPT !.stage = "stored",
                                 !.table = Commit(probe.table, plan, utcnow,
                                                  Cardinality(probe.table) + 1)]
    /\ UNCHANGED serviceVars

NextDetail ==
    \/ DetailCall
    \/ ConvertCall
    \/ UpsertCall

SpecDetail == InitDetail /\ [][NextDetail]_vars

(***************************************************************************)
(* One cycle taken alone, from the upstream responses to the table: the    *)
(* two discovery requests, one detail request per station found            *)
(* (get_station_data), the conversion and the write phase of               *)
(* update_berlin_stations, on an empty table and on a table where an       *)
(* earlier cycle stored station 1.                                         *)
(***************************************************************************)
CycleBoundsStations ==
    BoundsStations \cup {[BoundsStation(IntV(2), 5250) EXCEPT !.lon = 0]}
CycleBoundsResponses ==
    Failures
    \cup {[kind |-> "ok", data |-> d] : d \in SeqsUpTo(CycleBoundsStations, MaxBounds + 1)}

InitCycle ==
    /\ InitService
    /\ \E b \in CycleBoundsResponses, s \in SearchResponses, t \in {{}, StoredBefore} :
          \E responses \in [1..Len(fetch_berlin_stations(b, s)) -> DetailResponses] :
              probe = [stage |-> "cycle", bounds_response |-> b, search_response |-> s,
                       responses |-> responses, table |-> t, pre |-> t,
                       records |-> <<>>, log |-> "none"]

CycleCall ==
    /\ probe.stage = "cycle"
    /\ LET waqi_features ==
               fetch_berlin_stations_detailed(
                   fetch_berlin_stations(probe.bounds_response, probe.search_response),
                   probe.responses)
           records == StationRecords(waqi_features)
       IN IF NoData(waqi_features = <<>>, records)
          THEN probe' = [probe EXCEPT !.stage = "returned",
                                      !.log = IF waqi_features = <<>> THEN "no_features"
                                                                      ELSE "no_records"]
          ELSE \E plan \in UpsertPlans(probe.table, records, EmptyPlan) :
                  probe' = [probe EXCEPT !.stage = "returned",
                                         !.records = records,
                                         !.log = "saved",
                                         !.table = Commit(probe.table, plan, utcnow,
                                                          Cardinality(probe.table) + 1)]
    /\ UNCHANGED serviceVars

NextCycle == CycleCall

SpecCycle == InitCycle /\ [][NextCycle]_vars

(***************************************************************************)
(* AirQualityScheduler.start_scheduler and stop_scheduler, and the         *)
(* AsyncIOScheduler they drive.  The scheduler is [running, pending, jobs, *)
(* shutdowns]: pending holds the jobs added while it is stopped, jobs the  *)
(* content of its job store, shutdowns the shutdown calls handed to the    *)
(* event loop and not yet run.                                             *)
(***************************************************************************)
AsyncIOScheduler == [running |-> FALSE, pending |-> <<>>, jobs |-> <<>>, shutdowns |-> 0]

WithoutJob(jobs, id) ==
    LET Other(job) == job # id IN SelectSeq(jobs, Other)

\* add_job(..., id=id, replace_existing=True): a stopped scheduler keeps the
\* job for its start, a running one stores it in place of the job of that id
add_job(scheduler, id) ==
    IF scheduler.running
    THEN [scheduler EXCEPT !.jobs = Append(WithoutJob(@, id), id)]
    ELSE [scheduler EXCEPT !.pending = Append(@, id)]

RECURSIVE StorePending(_, _)
StorePending(jobs, pending) ==
    IF pending = <<>> THEN jobs
    ELSE StorePending(Append(WithoutJob(jobs, Head(pending)), Head(pending)), Tail(pending))

\* scheduler.start() on a stopped scheduler (on a running one it raises
\* SchedulerAlreadyRunningError)
start(scheduler) ==
    [scheduler EXCEPT !.running = TRUE,
                      !.jobs = StorePending(@, scheduler.pending),
                      !.pending = <<>>]

\* the effect of scheduler.shutdown(): the memory job store drops its jobs
shutdown(scheduler) == [scheduler EXCEPT !.running = FALSE, !.jobs = <<>>]

\* deferred: AsyncIOScheduler.shutdown hands its work to the event loop
\* (call_soon_threadsafe) instead of doing it in the call; which of the two
\* the installed APScheduler 3 does is fixed for a behaviour
InitScheduler ==
    /\ InitService
    /\ probe \in {[stage |-> "scheduler", deferred |-> d, is_running |-> FALSE,
                   scheduler |-> AsyncIOScheduler, calls |-> <<>>, last |-> "init",
                   pre |-> [is_running |-> FALSE, scheduler |-> AsyncIOScheduler],
                   raised |-> FALSE] : d \in BOOLEAN}

Called(name) ==
    [probe EXCEPT !.calls = Append(@, name), !.last = name, !.raised = FALSE,
                  !.pre = [is_running |-> probe.is_running, scheduler |-> probe.scheduler]]

start_scheduler ==
    /\ probe.stage = "scheduler"
    /\ Len(probe.calls) < MaxCalls
    /\ LET added == add_job(add_job(probe.scheduler, "berlin_stations_update"),
                            "database_cleanup")
       IN probe' = IF probe.is_running
                   THEN Called("start")
                   ELSE IF added.running
                        THEN [Called("start") EXCEPT !.scheduler = added,
                                                     !.raised = TRUE]
                        ELSE [Called("start") EXCEPT !.scheduler = start(added),
                                                     !.is_running = TRUE]
    /\ UNCHANGED serviceVars

stop_scheduler ==
    /\ probe.stage = "scheduler"
    /\ Len(probe.calls) < MaxCalls
    /\ probe' = IF ~probe.scheduler.running
                THEN Called("stop")
                ELSE [Called("stop") EXCEPT
                         !.scheduler = IF probe.deferred
                                       THEN [@ EXCEPT !.shutdowns = @ + 1]
                                       ELSE shutdown(@),
                         !.is_running = FALSE]
    /\ UNCHANGED serviceVars

\* the event loop runs a shutdown handed to it; on a scheduler that has
\* stopped meanwhile it raises SchedulerNotRunningError inside the loop
LoopShutdown ==
    /\ probe.stage = "scheduler"
    /\ probe.scheduler.shutdowns > 0
    /\ probe' = [probe EXCEPT
                    !.last = "loop",
                    !.scheduler = IF @.running
                                  THEN [shutdown(@) EXCEPT !.shutdowns = @ - 1]
                                  ELSE [@ EXCEPT !.shutdowns = @ - 1]]
    /\ UNCHANGED serviceVars

NextScheduler ==
    \/ start_scheduler
    \/ stop_scheduler
    \/ LoopShutdown

SpecScheduler == InitScheduler /\ [][NextScheduler]_vars

(***************************************************************************)
(* Properties of the reconciliation cycle.                                 *)
(***************************************************************************)
RowsOf(uid) == {row \in station_data : row.station_uid = uid}
BatchUids(records) == {records[i].station_uid : i \in 1..Len(records)}
DistinctUids(records) ==
    \A i, j \in 1..Len(records) : records[i].station_uid = records[j].station_uid => i = j
\* a row's columns other than id and last_update
Fields(row) ==
    [station_uid |-> row.station_uid, station_name |-> row.station_name, aqi |-> row.aqi,
     vals |-> row.vals, latitude |-> row.latitude, longitude |-> row.longitude]
WithoutTime(table) == {[row EXCEPT !.last_update = 0] : row \in table}

\* C1: over sequential cycles started from an empty table, no station_uid
\* ever has more than one stored row.
C1_AtMostOneRowPerStation ==
    \A row \in station_data : Cardinality(RowsOf(row.station_uid)) <= 1

\* C2: when a cycle has committed a batch holding a station_uid that another
\* cycle inserted while this one was in flight (the two overlapped and the
\* station_uid was not stored before), the table holds at most one row of
\* that station_uid.
C2_OverlapKeepsOneRow ==
    \A c \in Cycles :
        (pc[c] = "return" /\ session[c].committed) =>
            \A uid \in raced[c] \cap BatchUids(station_records[c]) :
                Cardinality(RowsOf(uid)) <= 1

\* the whole batch of cycle c is in the table: every record is in a row of
\* its station_uid that carries the cycle's timestamp (the values of the
\* last record of that station_uid the cycle wrote there), every record of
\* a station_uid that was not stored is a new row, the other rows are as
\* they were
WholeBatchPersisted(c) ==
    LET batch == station_records[c]
        pre == session[c].pre
        fresh == {i \in 1..Len(batch) :
                     \A row \in pre : row.station_uid # batch[i].station_uid}
    IN /\ \A i \in 1..Len(batch) :
              \E row \in station_data :
                  /\ row.last_update = session[c].current_time
                  /\ \E j \in i..Len(batch) :
                        /\ batch[j].station_uid = batch[i].station_uid
                        /\ Fields(row) = batch[j]
       /\ Cardinality(station_data) = Cardinality(pre) + Cardinality(fresh)
       /\ \A row \in pre : row.station_uid \notin BatchUids(batch) => row \in station_data

\* C3 as stated: whenever upsert_station_data raises (during the lookups, at
\* commit, or in the refresh after the commit), the table is afterwards what
\* it was before the call.
C3_RollbackRestoresTable ==
    \A c \in Cycles :
        (pc[c] = "return" /\ session[c].fault # "none") => station_data = session[c].pre

\* C3, amended: a failure during the lookups or at commit leaves the table
\* what it was before the call; a failure in the refresh after the commit
\* leaves the whole batch persisted.  Either every write of the batch is in
\* the table or none is.
C3_AllOrNothing ==
    \A c \in Cycles :
        (pc[c] = "return" /\ session[c].fault # "none") =>
            IF session[c].fault = "refresh"
            THEN WholeBatchPersisted(c)
            ELSE station_data = session[c].pre

\* a refresh has failed after the commit of a plan that changes a stored row
\* and adds another: the table is no longer what it was before the call
C3_Witness ==
    \E c \in Cycles :
        /\ pc[c] = "return"
        /\ session[c].fault = "refresh"
        /\ session[c].plan.dirty # <<>>
        /\ session[c].plan.new # <<>>
        /\ station_data # session[c].pre

\* C4: when a cycle commits the batch the previous commit already wrote
\* (distinct station_uids, nothing written in between), it inserts no row,
\* updates one row per record, and leaves every column but last_update as
\* it was.
C4_SecondRunChangesNothing ==
    \A c \in Cycles :
        (/\ pc[c] = "return"
         /\ session[c].committed
         /\ session[c].again
         /\ DistinctUids(station_records[c])) =>
            /\ session[c].plan.new = <<>>
            /\ Cardinality(DirtyIds(session[c].plan)) = Len(station_records[c])
            /\ WithoutTime(station_data) = WithoutTime(session[c].pre)

\* C5: every step of a cycle that ends with an empty batch (nothing fetched,
\* or nothing that converts) leaves the table and the id sequence alone and
\* opens no session; the step that finds the batch empty ends the call with
\* a warning, not an error.
C5_EmptyBatchNoOp ==
    [][\A c \in Cycles :
          (pc'[c] # pc[c] /\ station_records'[c] = <<>>) =>
              /\ station_data' = station_data
              /\ next_id' = next_id
              /\ ~session'[c].opened
              /\ pc[c] = "fetch" =>
                    (pc'[c] = "return" /\ log'[c] \in {"no_features", "no_records"})]_vars

\* a cycle whose features all failed conversion has ended, rows stored
C5_Witness ==
    \E c \in Cycles :
        /\ pc[c] = "return"
        /\ log[c] = "no_records"
        /\ station_data # {}

(***************************************************************************)
(* Properties of the retention sweep.                                      *)
(***************************************************************************)
\* C8: a sweep that succeeds deletes exactly the rows whose last_update is
\* strictly earlier than its start time minus days_to_keep, keeps every
\* other row unchanged, and returns the number of rows it deleted.
C8_SweepDeletesExactlyOld ==
    (cleanup.pc = "return" /\ ~cleanup.fault) =>
        /\ station_data \subseteq cleanup.pre
        /\ \A row \in cleanup.pre :
              row \notin station_data <=> row.last_update < cleanup.at - DaysToKeep
        /\ cleanup.deleted_count = Cardinality(cleanup.pre \ station_data)

\* a sweep has deleted one row and kept another
C8_Witness ==
    /\ cleanup.pc = "return"
    /\ ~cleanup.fault
    /\ cleanup.deleted_count = 1
    /\ station_data # {}

\* C9: right after a sweep that succeeded, with no write and no clock
\* advance since, a second sweep deletes nothing and returns 0.
C9_SecondSweepDeletesNothing ==
    (cleanup.pc = "return" /\ ~cleanup.fault /\ utcnow = cleanup.at) =>
        cleanup_old_station_data(station_data, utcnow, DaysToKeep)
            = [table |-> station_data, deleted_count |-> 0]

\* a sweep has just deleted two rows
C9_Witness ==
    /\ cleanup.pc = "return"
    /\ ~cleanup.fault
    /\ utcnow = cleanup.at
    /\ cleanup.deleted_count = 2

(***************************************************************************)
(* Properties of fetch_berlin_stations.                                    *)
(***************************************************************************)
\* feature f carries the uid, coordinates, aqi and station data of station st
FromStation(f, st) ==
    /\ f.uid = st.uid
    /\ f.lat = st.lat
    /\ f.lon = st.lon
    /\ f.aqi = st.aqi
    /\ f.station = st.station
FromSearchStation(f, st) ==
    /\ f.uid = st.uid
    /\ f.lat = st.geo.lat
    /\ f.lon = st.geo.lon
    /\ f.aqi = st.aqi
    /\ f.station = st.station
HasUidAndCoordinates(st) == st.uid # NoneV /\ st.lat # 0 /\ st.lon # 0
OutsideBox(lat, lon) == lat < lat1 \/ lat > lat2 \/ lon < lon1 \/ lon > lon2

C7_CoordinateFilter ==
    probe.stage = "fetched" =>
        LET b == probe.bounds_response.data
            s == probe.search_response.data
        IN /\ \A j \in 1..Len(s) :
                 (s[j].geo.k = "pair" /\ OutsideBox(s[j].geo.lat, s[j].geo.lon))
                 => \A p \in 1..Len(probe.features) :
                       ~FromSearchStation(probe.features[p], s[j])
           /\ \A i \in 1..Len(b) :
                 (/\ HasUidAndCoordinates(b[i])
                  /\ OutsideBox(b[i].lat, b[i].lon)
                  /\ \A k \in (i + 1)..Len(b) : b[k].uid # b[i].uid)
                 => \E p \in 1..Len(probe.features) : FromStation(probe.features[p], b[i])

\* a search record and a bounding-box record with the same coordinates
\* outside the box: the first is dropped, the second returned
C7_Witness ==
    /\ probe.stage = "fetched"
    /\ \E i \in 1..Len(probe.bounds_response.data),
          j \in 1..Len(probe.search_response.data) :
          LET st == probe.bounds_response.data[i]
              se == probe.search_response.data[j]
          IN /\ OutsideBox(st.lat, st.lon)
             /\ se.geo.k = "pair"
             /\ se.geo.lat = st.lat
             /\ se.geo.lon = st.lon
             /\ se.uid \notin {NoneV, st.uid}
             /\ \E p \in 1..Len(probe.features) : FromStation(probe.features[p], st)
             /\ \A p \in 1..Len(probe.features) : probe.features[p].uid # se.uid

(***************************************************************************)
(* Properties of the values a cycle stores.                                *)
(***************************************************************************)
\* C10: when the cycle stores a row for a station whose detail payload was
\* received, every pollutant and weather column whose key has no entry in
\* the payload is null in the row, and every column whose key has a value
\* holds that value.
C10_MissingValueFidelity ==
    (probe.stage = "stored" /\ probe.response.kind = "ok" /\ probe.records # <<>>) =>
        \A row \in probe.table :
            \A col \in Columns :
                LET entry == probe.response.iaqi[IaqiKeyOf(col)]
                IN /\ entry = AbsentKey => row.vals[col] = NoneV
                   /\ entry.t = "int" => row.vals[col] = entry

\* C11: when the detail payload of a station holds an entry that is null, the
\* row the cycle stores for the station has that column null and keeps what
\* the payload reports: the name, the aqi, and every other pollutant and
\* weather value.
C11_NullEntryKeepsOthers ==
    (/\ probe.stage = "stored"
     /\ probe.response.kind = "ok"
     /\ OptionalOk(probe.response.aqi)
     /\ \E k \in IaqiKeys : probe.response.iaqi[k] = NoneV) =>
        \E row \in probe.table :
            /\ row.station_uid = DetailStation.uid.v
            /\ row.station_name = probe.response.name.s
            /\ row.aqi = OptionalOf(probe.response.aqi)
            /\ \A col \in Columns :
                  row.vals[col] = IaqiValue(probe.response.iaqi, IaqiKeyOf(col))

(***************************************************************************)
(* Properties of the write phase.                                          *)
(***************************************************************************)
\* C12: after a cycle has committed its batch, every row whose station_uid
\* is in the batch carries the one timestamp the call took at its start.
C12_OneTimestampPerCycle ==
    \A c \in Cycles :
        (pc[c] = "return" /\ session[c].fault = "none") =>
            \A row \in station_data :
                row.station_uid \in BatchUids(station_records[c])
                    => row.last_update = session[c].current_time

\* C13: no step changes the station_uid stored under an id, an id names one
\* row, a row that appears takes an id that was never used, and a cycle
\* keeps every stored station at the number of rows it had: an update
\* changes the row in place and adds none.
C13_RowIdentityStable ==
    [][/\ \A row \in station_data, after \in station_data' :
             after.id = row.id => after.station_uid = row.station_uid
       /\ \A a, b \in station_data' : a.id = b.id => a = b
       /\ \A after \in station_data' :
             (\A row \in station_data : row.id # after.id) => after.id >= next_id
       /\ \A c \in Cycles :
             (pc[c] = "fetch" /\ pc'[c] = "return") =>
                 \A row \in station_data :
                     Cardinality({after \in station_data' :
                                     after.station_uid = row.station_uid})
                         = Cardinality(RowsOf(row.station_uid))]_vars

\* a cycle has committed an update that changed the values of a stored row
C13_Witness ==
    \E c \in Cycles :
        /\ pc[c] = "return"
        /\ session[c].committed
        /\ \E row \in session[c].pre, after \in station_data :
              /\ after.id = row.id
              /\ after.id \in DirtyIds(session[c].plan)
              /\ Fields(after) # Fields(row)

\* C14: no step of a cycle removes a row, and a step of a cycle leaves
\* every row whose station_uid is not in the cycle's batch exactly as it
\* was, last_update included.
C14_CycleKeepsOtherRows ==
    [][\A c \in Cycles :
          pc'[c] # pc[c] =>
              \A row \in station_data :
                  /\ \E after \in station_data' : after.id = row.id
                  /\ row.station_uid \notin BatchUids(station_records'[c])
                        => row \in station_data']_vars

\* a cycle has committed a batch that changed the table while a row of a
\* station that is not in the batch was stored
C14_Witness ==
    \E c \in Cycles :
        /\ pc[c] = "return"
        /\ session[c].committed
        /\ station_data # session[c].pre
        /\ \E row \in session[c].pre :
              /\ row.station_uid \notin BatchUids(station_records[c])
              /\ row \in station_data

\* C15: after a cycle has committed, every record of the batch whose lookup
\* found a stored row is what that row holds: each column other than id and
\* station_uid has the value of the record, a null where the record has none.
C15_UpdateOverwritesEveryField ==
    \A c \in Cycles :
        (pc[c] = "return" /\ session[c].committed) =>
            \A i \in 1..Len(session[c].plan.updated_stations) :
                LET item == session[c].plan.updated_stations[i] IN
                ~item.new =>
                    \E row \in station_data :
                        /\ row.id = item.ref
                        /\ Fields(row) = station_records[c][i]

(***************************************************************************)
(* Properties of a cycle's error handling.                                 *)
(***************************************************************************)
\* C16: when both discovery requests succeed, whatever malformed records
\* the two results hold, every well-formed record still gives a feature of
\* its uid: a bounding-box record with a uid and non-zero coordinates, a
\* keyword-search record with a uid and coordinates inside BERLIN_BOUNDS.
TransientFailure(response) == response.kind \in {"exc", "non200"}

C16_MalformedSkippedAlone ==
    (/\ probe.stage = "fetched"
     /\ probe.bounds_response.kind = "ok"
     /\ probe.search_response.kind = "ok") =>
        LET b == probe.bounds_response.data
            s == probe.search_response.data
        IN /\ \A i \in 1..Len(b) :
                 HasUidAndCoordinates(b[i])
                 => \E p \in 1..Len(probe.features) : probe.features[p].uid = b[i].uid
           /\ \A j \in 1..Len(s) :
                 (/\ s[j].uid # NoneV
                  /\ s[j].geo.k = "pair"
                  /\ ~OutsideBox(s[j].geo.lat, s[j].geo.lon))
                 => \E p \in 1..Len(probe.features) : probe.features[p].uid = s[j].uid

\* C17: when a request of the cycle has failed (it raised, a timeout or a
\* body that is not JSON, or it answered with a status other than 200), be
\* it the bounding-box request, the keyword search or a detail request, the
\* table after the cycle is the table before it.
C17_FetchFailureWritesNothing ==
    (/\ probe.stage = "returned"
     /\ \/ TransientFailure(probe.bounds_response)
        \/ TransientFailure(probe.search_response)
        \/ \E i \in 1..Len(probe.responses) : TransientFailure(probe.responses[i])) =>
        probe.table = probe.pre

\* C18: when a call whose write phase failed before its commit returns
\* (an exception of a lookup or of the commit, nothing persisted), its
\* caller does not take it for a success.
C18_FailedCycleSurfaced ==
    [][\A c \in Cycles :
          (/\ pc[c] = "return"
           /\ pc'[c] = "idle"
           /\ session[c].fault # "none"
           /\ ~session[c].committed) => outcome'[c] # "success"]_vars

\* C19: when the batch handed to upsert_station_data holds two records of
\* one station_uid, the call raises (the cycle logs the error) and the
\* table is what it was before the call.
C19_DuplicateBatchRejected ==
    \A c \in Cycles :
        (/\ pc[c] = "return"
         /\ session[c].opened
         /\ ~DistinctUids(station_records[c])) =>
            /\ log[c] = "db_error"
            /\ station_data = session[c].pre

(***************************************************************************)
(* Properties of upsert_station_data's return.                             *)
(***************************************************************************)
\* C20: a call that reports success has committed once and has then re-read
\* every item it returns, one refresh per updated or inserted record; the
\* rows it returns are rows of the committed table, with the call's
\* timestamp and the station_uid of their record; and in no call, failed
\* ones included, a refresh comes before the commit.
C20_ReturnAfterCommitAndRefresh ==
    \A c \in Cycles :
        pc[c] = "return" =>
            LET calls == session[c].calls
                returned == session[c].returned
            IN /\ log[c] = "saved" =>
                     /\ session[c].committed
                     /\ calls = <<"commit">> \o [i \in 1..Len(station_records[c]) |-> "refresh"]
                     /\ Len(returned) = Len(station_records[c])
                     /\ \A i \in 1..Len(returned) :
                           /\ returned[i] \in station_data
                           /\ returned[i].last_update = session[c].current_time
                           /\ returned[i].station_uid = station_records[c][i].station_uid
               /\ \A i \in 1..Len(calls) :
                     calls[i] = "refresh" => \E j \in 1..(i - 1) : calls[j] = "commit"
               /\ Cardinality({i \in 1..Len(calls) : calls[i] = "commit"}) <= 1

\* a call has reported success after updating a stored row and adding a row
C20_Witness ==
    \E c \in Cycles :
        /\ pc[c] = "return"
        /\ log[c] = "saved"
        /\ session[c].plan.dirty # <<>>
        /\ session[c].plan.new # <<>>
        /\ Len(session[c].returned) = 2

(***************************************************************************)
(* Properties of a cycle taken from its responses.                         *)
(***************************************************************************)
\* C21: a cycle hands no record with latitude 0 or longitude 0 to
\* upsert_station_data and leaves no such row in the table, whatever the
\* discovery results hold: a record whose latitude or longitude is 0 or
\* missing is dropped on the way.
C21_NoZeroCoordinateWritten ==
    probe.stage = "returned" =>
        /\ \A i \in 1..Len(probe.records) :
              probe.records[i].latitude # 0 /\ probe.records[i].longitude # 0
        /\ \A row \in probe.table : row.latitude # 0 /\ row.longitude # 0

\* the bounding box listed a station without longitude next to a station
\* with coordinates, and the cycle has written the second one only
C21_Witness ==
    /\ probe.stage = "returned"
    /\ probe.log = "saved"
    /\ \E i, j \in 1..Len(probe.bounds_response.data) :
          LET zero == probe.bounds_response.data[i]
              good == probe.bounds_response.data[j]
          IN /\ zero.lon = 0
             /\ zero.uid.t = "int"
             /\ good.uid.t = "int"
             /\ good.uid # zero.uid
             /\ HasUidAndCoordinates(good)
             /\ \E row \in probe.table : row.station_uid = good.uid.v
             /\ \A row \in probe.table : row.station_uid # zero.uid.v

(***************************************************************************)
(* Properties of overlapping callbacks.                                    *)
(***************************************************************************)
\* C22: when a cycle has committed a batch holding a station_uid that was
\* stored and that another cycle updated while this one was in flight,
\* every row of that station_uid holds a record of this cycle, whole, with
\* this cycle's timestamp, and the station_uid has the rows it had: the
\* later commit alone decides what is stored.
C22_LastCommitWins ==
    \A c \in Cycles :
        (pc[c] = "return" /\ session[c].fault = "none") =>
            \A uid \in rewritten[c] \cap BatchUids(station_records[c]) :
                /\ \A row \in RowsOf(uid) :
                      /\ row.last_update = session[c].current_time
                      /\ \E i \in 1..Len(station_records[c]) :
                            Fields(row) = station_records[c][i]
                /\ Cardinality(RowsOf(uid))
                       = Cardinality({row \in session[c].pre : row.station_uid = uid})

\* C23: when a cycle has committed after a sweep deleted rows while the
\* cycle was in flight, every station_uid of its batch has exactly one
\* row, and that row holds a record of the batch.
C23_SweepDoesNotInterfere ==
    \A c \in Cycles :
        (pc[c] = "return" /\ session[c].fault = "none" /\ swept[c] # {}) =>
            \A uid \in BatchUids(station_records[c]) :
                /\ Cardinality(RowsOf(uid)) = 1
                /\ \A row \in RowsOf(uid) :
                      \E i \in 1..Len(station_records[c]) :
                          Fields(row) = station_records[c][i]

(***************************************************************************)
(* Properties of the table's writers.                                      *)
(***************************************************************************)
\* C24: a step that changes the table is the write phase of a cycle that
\* commits or a sweep that succeeds; the start of a cycle, a cycle that
\* ends after its fetch or its conversion with nothing to write, a write
\* phase that fails before its commit, the returns, the clock and the read
\* of GET /stations/berlin leave the table as it is.
C24_OnlyUpsertAndSweepWrite ==
    [][station_data' # station_data =>
          \/ \E c \in Cycles :
                /\ pc[c] = "fetch"
                /\ pc'[c] = "return"
                /\ session'[c].committed
                /\ station_records'[c] # <<>>
          \/ /\ cleanup.pc = "idle"
             /\ cleanup'.pc = "return"
             /\ ~cleanup'.fault]_vars

\* GET /stations/berlin has answered with the rows a cycle stored, and the
\* cycle has returned
C24_Witness ==
    /\ stations.count > 0
    /\ stations.rows = station_data
    /\ runs > 0
    /\ \A c \in Cycles : pc[c] = "idle"

(***************************************************************************)
(* Properties of the batch and of the fetch.                               *)
(***************************************************************************)
\* C25: whatever the two discovery results and the detail outcomes are, the
\* batch a cycle hands to upsert_station_data holds no two records with
\* the same station_uid.
C25_BatchHasDistinctUids ==
    probe.stage = "returned" => DistinctUids(probe.records)

\* the keyword search has failed: the request or its parsing raised, the
\* answer was not 200 or not ok, or a record raised while it was read
SearchFailed(search_response) ==
    \/ search_response.kind # "ok"
    \/ \E j \in 1..Len(search_response.data) : search_response.data[j].geo.k = "bad"

\* C26: when the keyword search fails, every bounding-box record with a uid
\* and non-zero coordinates (the last of its uid) is still returned as a
\* feature built from it.
C26_SearchFailureKeepsBoundsStations ==
    (/\ probe.stage = "fetched"
     /\ probe.bounds_response.kind = "ok"
     /\ SearchFailed(probe.search_response)) =>
        LET b == probe.bounds_response.data
        IN \A i \in 1..Len(b) :
              (/\ HasUidAndCoordinates(b[i])
               /\ \A k \in (i + 1)..Len(b) : b[k].uid # b[i].uid)
              => \E p \in 1..Len(probe.features) : FromStation(probe.features[p], b[i])

\* a record of the keyword search has raised after the bounding box listed
\* two stations, and both are returned
C26_Witness ==
    /\ probe.stage = "fetched"
    /\ probe.bounds_response.kind = "ok"
    /\ \E j \in 1..Len(probe.search_response.data) :
          probe.search_response.data[j].geo.k = "bad"
    /\ Len(probe.bounds_response.data) = 2
    /\ Len(probe.features) = 2
    /\ \A p \in 1..2 : FromStation(probe.features[p], probe.bounds_response.data[p])

(***************************************************************************)
(* Properties of a failed detail request.                                  *)
(***************************************************************************)
\* C27: when the detail request of a stored station fails (exception, answer
\* other than 200, status other than ok), the stored row of the station keeps
\* a name other than the placeholder and every aqi, pollutant and weather
\* value it had: none becomes null.
C27_FailedDetailKeepsStored ==
    (/\ probe.stage = "stored"
     /\ probe.response.kind # "ok") =>
        \A old \in probe.pre :
           \E row \in probe.table :
              /\ row.station_uid = old.station_uid
              /\ old.station_name # "Unknown" => row.station_name # "Unknown"
              /\ old.aqi # NoneV => row.aqi # NoneV
              /\ \A col \in Columns : old.vals[col] # NoneV => row.vals[col] # NoneV

(***************************************************************************)
(* Properties of start_scheduler and stop_scheduler.                       *)
(***************************************************************************)
JobIds == {"berlin_stations_update", "database_cleanup"}
\* what get_jobs() lists: the job store, and the jobs waiting for a start
Registered(scheduler, id) ==
    Len(SelectSeq(scheduler.jobs \o scheduler.pending, LAMBDA job : job = id))

FlagMatchesScheduler == probe.is_running = probe.scheduler.running
AtMostOneJobOfEachId == \A id \in JobIds : Registered(probe.scheduler, id) <= 1
StartWhileRunningChangesNothing ==
    (probe.last = "start" /\ probe.pre.is_running) =>
        /\ probe.is_running = probe.pre.is_running
        /\ probe.scheduler = probe.pre.scheduler

\* C28: after any sequence of start_scheduler and stop_scheduler calls,
\* is_running is true exactly when the underlying scheduler is running, at
\* most one job of each of the two ids is registered, and a start_scheduler
\* call made while is_running was true has changed nothing.
C28_FlagJobsAndIdempotentStart ==
    probe.stage = "scheduler" =>
        /\ FlagMatchesScheduler
        /\ AtMostOneJobOfEachId
        /\ StartWhileRunningChangesNothing

(***************************************************************************)
(* Properties of the database sessions.                                    *)
(***************************************************************************)
\* C29: when a cycle or a sweep has run to its end, the session it opened
\* is closed, whether the storage call succeeded or raised; and a cycle that
\* ended before the write phase (nothing fetched, nothing converted) has
\* opened none.
C29_SessionsClosed ==
    /\ \A c \in Cycles :
          /\ (pc[c] = "return" /\ session[c].opened) => session[c].closed
          /\ (pc[c] = "return" /\ log[c] \in {"no_features", "no_records"})
                => ~session[c].opened
    /\ (cleanup.pc = "return" /\ cleanup.opened) => cleanup.closed

\* a cycle whose commit raised has rolled back and closed its session
C29_Witness ==
    /\ pc["scheduled"] = "return"
    /\ session["scheduled"].opened
    /\ session["scheduled"].fault = "commit"
    /\ session["scheduled"].closed

====
